---- MODULE Spec2Model ----
(***************************************************************************)
(* dask_condor: HTCondorCluster, a controller that starts dask workers as  *)
(* HTCondor jobs, tracks them in self.jobs, prunes that dict from a        *)
(* periodic callback, and removes the jobs on close() and at process exit. *)
(*                                                                         *)
(* Modelled from src/dask_condor/__init__.py.  The schedd (htcondor) is    *)
(* the environment: a queue of job ads, a cluster-id counter, and remote   *)
(* calls (queue, query, act) each of which can fail.  The module targets   *)
(* Python 2.7 (see the comment in reserved_memory_per_worker), so          *)
(* dict.keys() is a list snapshot.                                         *)
(***************************************************************************)
EXTENDS Integers, Sequences, FiniteSets, TLC

\* ------------------------------------------------------------ bounds ----
MaxCluster == 2    \* cluster ids the schedd hands out in one run
MaxN == 2          \* largest n passed to start_workers
MaxJobs == 3       \* jobs submitted in one run, over all clusters
MaxCloses == 2     \* close() calls per controller before its destructor
MaxStop == 2       \* most job ids passed to one stop_workers call
MaxProcs == 12     \* largest procs_per_worker handed to the budget calculator

\* --------------------------------------------------- program constants --
JOB_STATUS_IDLE == 1
JOB_STATUS_RUNNING == 2
JOB_STATUS_HELD == 5

DefaultMemoryPerWorker == 1024
DefaultProcsPerWorker == 1
DefaultThreadsPerWorker == 1
DefaultCleanupInterval == 1000
DefaultWorkerTimeout == 86400

base_usage == 10
per_proc_usage == 10
nanny_usage == 4

\* scheduler ids (self.scheduler.id) of the controllers of one process
Controllers == {"a", "b"}

\* ------------------------------------------------ Python values ---------
\* An optional argument: None is <<>>, the value v is <<v>>.
None == << >>
Some(v) == <<v>>

\* truth value of an optional integer: None and 0 are falsy
Truthy(x) == x # None /\ x[1] # 0

\* Python's `x or y`
PyOr(x, y) == IF Truthy(x) THEN x ELSE y

\* "%s" % n for a non-negative integer: its decimal digits, one per element
Digits == <<"0", "1", "2", "3", "4", "5", "6", "7", "8", "9">>

RECURSIVE Str(_)
Str(n) == IF n < 10 THEN <<Digits[n + 1]>>
          ELSE Str(n \div 10) \o <<Digits[(n % 10) + 1]>>

\* a key that leaves the ProcId out
JobId_cluster(ad) == Str(ad.ClusterId) \o <<".">> \o <<"0">>

\* "%s.%s" % (ad['ClusterId'], ad['ProcId'])
JobId(ad) == Str(ad.ClusterId) \o <<".">> \o Str(ad.ProcId)

\* the integer a ClassAd integer literal denotes; -1 when it is no literal
DigitVal(ch) == IF \E i \in 1..10 : Digits[i] = ch
                THEN (CHOOSE i \in 1..10 : Digits[i] = ch) - 1
                ELSE -1

RECURSIVE Literal(_)
Literal(s) ==
    IF Len(s) = 0 THEN -1
    ELSE IF Len(s) = 1 THEN DigitVal(s[1])
    ELSE LET hi == Literal(SubSeq(s, 1, Len(s) - 1))
             lo == DigitVal(s[Len(s)])
         IN  IF hi < 0 \/ lo < 0 THEN -1 ELSE 10 * hi + lo

\* ------------------------------------------------ constraints -----------
\* jobid.split('.', 1): the parts before and after the first '.', or a
\* single part when there is none
Split(jobid) ==
    IF \E i \in 1..Len(jobid) : jobid[i] = "."
    THEN LET i == CHOOSE k \in 1..Len(jobid) :
                      jobid[k] = "." /\ \A j \in 1..(k - 1) : jobid[j] # "."
         IN  <<SubSeq(jobid, 1, i - 1), SubSeq(jobid, i + 1, Len(jobid))>>
    ELSE <<jobid>>

\* the unpacking `clusterid, procid = ...` raises ValueError unless two parts
CanUnpack(jobid) == Len(Split(jobid)) = 2

\* '(ClusterId == %s && ProcId == %s)'
worker_constraint(jobid) ==
    [op |-> "job", clusterid |-> Split(jobid)[1], procid |-> Split(jobid)[2]]

\* '(' + ' || '.join(constraints) + ')'
or_constraints(constraints) == [op |-> "or", args |-> constraints]

workers_constraint(jobids) ==
    or_constraints([i \in 1..Len(jobids) |-> worker_constraint(jobids[i])])

\* '(DaskSchedulerId == "%s")' % self.scheduler.id
scheduler_constraint(c) == [op |-> "tag", id |-> c]

\* the job-set expression alone, without the controller scope
AndConstraint_unscoped(l, r) == r

\* '%s && %s'
AndConstraint(l, r) == [op |-> "and", l |-> l, r |-> r]

\* the schedd parses the expression: '()' is not a ClassAd expression
RECURSIVE Parses(_)
Parses(e) ==
    CASE e.op = "tag" -> TRUE
      [] e.op = "job" -> TRUE
      [] e.op = "or"  -> /\ Len(e.args) > 0
                         /\ \A i \in 1..Len(e.args) : Parses(e.args[i])
      [] e.op = "and" -> Parses(e.l) /\ Parses(e.r)

\* the schedd evaluates the expression against one job ad
RECURSIVE Matches(_, _)
Matches(e, ad) ==
    CASE e.op = "tag" -> ad.DaskSchedulerId = e.id
      [] e.op = "job" -> /\ Literal(e.clusterid) = ad.ClusterId
                         /\ Literal(e.procid) = ad.ProcId
      [] e.op = "or"  -> \E i \in 1..Len(e.args) : Matches(e.args[i], ad)
      [] e.op = "and" -> Matches(e.l, ad) /\ Matches(e.r, ad)

\* ------------------------------------------------ budget ----------------
\* int(reserved * 1.1): reserved is 20 or 14 + 10p, where the float product
\* is 22.000000000000004 or has fraction .4, so the truncation is exact
\* a calculator whose multi-process branch leaves out the base usage and
\* counts only the processes after the first
reserved_memory_per_worker_nobase(procs_per_worker) ==
    LET reserved == IF procs_per_worker > 1
                    THEN nanny_usage + per_proc_usage * (procs_per_worker - 1)
                    ELSE base_usage + per_proc_usage
    IN  (reserved * 11) \div 10

reserved_memory_per_worker(procs_per_worker) ==
    LET reserved == base_usage +
                    (IF procs_per_worker > 1
                     THEN nanny_usage + per_proc_usage * procs_per_worker
                     ELSE per_proc_usage)
    IN  (reserved * 11) \div 10

\* ------------------------------------------------ state ------------------
VARIABLES
    registry,     \* _global_schedulers: list of <<scheduler id, schedd>>
    life,         \* per controller: "unborn", "open", "closed", "failed", "dead"
    cfg,          \* per controller: the attributes set at the end of __init__
    timerOn,      \* per controller: the PeriodicCallback is running
    jobs,         \* per controller: the keys of self.jobs
    queue,        \* the schedd's job queue: a set of job ads
    nextCluster,  \* the schedd's next cluster id
    submitted,    \* the number of jobs the schedd has been handed
    closeRms,     \* per controller: removal requests issued by close()
    exited,       \* "running", or how the atexit pass ended
    last,         \* the last operation: name, controller, arguments, result, remote calls
    input,        \* SpecStart: the arguments of the start_workers call under test
    pc            \* SpecRace: where the caller's thread is in start_workers, and
                  \* the loop's thread in cleanup_jobs

vars == <<registry, life, cfg, timerOn, jobs, queue, nextCluster, submitted,
          closeRms, exited, last, input, pc>>

\* neither thread is inside start_workers or cleanup_jobs
Idle == [control |-> [at |-> "idle"], loop |-> [at |-> "idle"]]

Call(op, c, args, result, calls) ==
    [op |-> op, ctrl |-> c, args |-> args, result |-> result, calls |-> calls]

DefaultCfg ==
    [memory_per_worker |-> Some(DefaultMemoryPerWorker),
     procs_per_worker |-> Some(DefaultProcsPerWorker),
     reserved_memory |-> None,
     threads_per_worker |-> Some(DefaultThreadsPerWorker),
     worker_timeout |-> Some(DefaultWorkerTimeout)]

Init ==
    /\ registry = << >>
    /\ life = [c \in Controllers |-> "unborn"]
    /\ cfg = [c \in Controllers |-> DefaultCfg]
    /\ timerOn = [c \in Controllers |-> FALSE]
    /\ jobs = [c \in Controllers |-> {}]
    /\ queue = {}
    /\ nextCluster = 1
    /\ submitted = 0
    /\ closeRms = [c \in Controllers |-> 0]
    /\ exited = "running"
    /\ last = Call("import", "-", << >>, "ok", << >>)
    /\ input = << >>
    /\ pc = Idle

\* ------------------------------------------------ the schedd -------------
\* schedd.act(htcondor.JobAction.Remove, job_spec): every matching job
\* leaves the queue (Removed is a transient status, and not an active one)
condor_rm(q, job_spec) == {ad \in q : ~Matches(job_spec, ad)}

\* the request as the schedd receives it
RmCall(job_spec) == [kind |-> "act", job_spec |-> job_spec]

\* schedd.query(constraint, attrs)
Query(q, constraint) == {ad \in q : Matches(constraint, ad)}

\* a job's own life in the queue: it starts, is held by Periodic_Hold, is
\* suspended (JobStatus 7) and resumed, or completes and leaves the queue
ScheddStep ==
    /\ exited = "running"
    /\ \E ad \in queue :
         \/ /\ ad.JobStatus = JOB_STATUS_IDLE
            /\ queue' = (queue \ {ad}) \cup {[ad EXCEPT !.JobStatus = JOB_STATUS_RUNNING]}
         \/ /\ ad.JobStatus = JOB_STATUS_RUNNING
            /\ \E st \in {JOB_STATUS_HELD, 7} :
                  queue' = (queue \ {ad}) \cup {[ad EXCEPT !.JobStatus = st]}
         \/ /\ ad.JobStatus = 7
            /\ queue' = (queue \ {ad}) \cup {[ad EXCEPT !.JobStatus = JOB_STATUS_RUNNING]}
         \/ /\ ad.JobStatus = JOB_STATUS_RUNNING
            /\ queue' = queue \ {ad}
    /\ last' = Call("schedd", "-", << >>, "ok", << >>)
    /\ UNCHANGED <<registry, life, cfg, timerOn, jobs, nextCluster, submitted, closeRms, exited, input, pc>>

\* ------------------------------------------------ construction -----------
HTCondorCluster_init(c, config, cleanup_interval) ==
    /\ exited = "running"
    /\ life[c] = "unborn"
    /\ registry' = Append(registry, <<c, "schedd">>)
    /\ jobs' = [jobs EXCEPT ![c] = {}]
    /\ IF cleanup_interval < 1
       THEN /\ life' = [life EXCEPT ![c] = "failed"]
            /\ last' = Call("__init__", c, <<cleanup_interval>>, "ValueError", << >>)
            /\ UNCHANGED <<cfg, timerOn>>
       ELSE /\ life' = [life EXCEPT ![c] = "open"]
            /\ timerOn' = [timerOn EXCEPT ![c] = TRUE]
            /\ cfg' = [cfg EXCEPT ![c] = config]
            /\ last' = Call("__init__", c, <<cleanup_interval>>, "ok", << >>)
    /\ UNCHANGED <<queue, nextCluster, submitted, closeRms, exited, input, pc>>

\* ------------------------------------------------ start_workers ----------
\* the values the body works with after `x or self.x`
EffMemory(c, m) == PyOr(m, cfg[c].memory_per_worker)[1]
EffProcs(c, p) == PyOr(p, cfg[c].procs_per_worker)[1]
EffThreads(c, t) == PyOr(t, cfg[c].threads_per_worker)[1]
EffReserved(c, r, p) ==
    PyOr(PyOr(r, cfg[c].reserved_memory),
         Some(reserved_memory_per_worker(EffProcs(c, p))))[1]
EffTimeout(c, w) == PyOr(w, cfg[c].worker_timeout)[1]

\* the checks with `n < 0` in place of `n < 1`
StartError_n0(c, n, m, p, r, t, w) ==
    IF n < 0 THEN "n"
    ELSE IF EffMemory(c, m) < 1 THEN "memory_per_worker"
    ELSE IF EffProcs(c, p) < 1 THEN "procs_per_worker"
    ELSE IF EffThreads(c, t) < 1 THEN "threads_per_worker"
    ELSE IF ~(0 <= EffReserved(c, r, p) /\ EffReserved(c, r, p) < EffMemory(c, m))
         THEN "reserved_memory"
    ELSE IF EffTimeout(c, w) < 1 THEN "worker_timeout"
    ELSE "none"

\* the check that raises ValueError, or "none"
StartError(c, n, m, p, r, t, w) ==
    IF n < 1 THEN "n"
    ELSE IF EffMemory(c, m) < 1 THEN "memory_per_worker"
    ELSE IF EffProcs(c, p) < 1 THEN "procs_per_worker"
    ELSE IF EffThreads(c, t) < 1 THEN "threads_per_worker"
    ELSE IF ~(0 <= EffReserved(c, r, p) /\ EffReserved(c, r, p) < EffMemory(c, m))
         THEN "reserved_memory"
    ELSE IF EffTimeout(c, w) < 1 THEN "worker_timeout"
    ELSE "none"

\* the htcondor.Submit object handed to job.queue
SubmitDescription(c, m, p, r, t, w) ==
    [nprocs |-> EffProcs(c, p),
     nthreads |-> EffThreads(c, t),
     no_nanny |-> ~(EffProcs(c, p) > 1),
     memory_limit |-> EffMemory(c, m) - EffReserved(c, r, p),
     RequestMemory |-> EffMemory(c, m),
     RequestCpus |-> EffProcs(c, p) * EffThreads(c, t)
                     + (IF EffProcs(c, p) > 1 THEN 1 ELSE 0),
     DaskSchedulerId |-> c,
     Periodic_Hold |-> EffTimeout(c, w),
     Periodic_Hold_Reason |-> EffTimeout(c, w) \div 60]

\* the ads job.queue(txn, count=n, ad_results=classads) returns
Classads(c, clusterid, n) ==
    {[ClusterId |-> clusterid, ProcId |-> procid, DaskSchedulerId |-> c,
      JobStatus |-> JOB_STATUS_IDLE] : procid \in 0..(n - 1)}

\* for ad in classads: self.jobs["%s.%s" % ...] = ad
Record(js, classads) == js \cup {JobId(ad) : ad \in classads}

\* outcome: "ok"; "queue" when job.queue raises; "commit" when the
\* transaction fails to commit on leaving the with block
start_workers(c, n, m, p, r, t, w, outcome) ==
    /\ exited = "running"
    /\ life[c] \in {"open", "closed"}
    /\ LET args == <<n, m, p, r, t, w>>
           job == SubmitDescription(c, m, p, r, t, w)
           submit == [kind |-> "queue", job |-> job, count |-> n]
           classads == Classads(c, nextCluster, n)
       IN  IF StartError(c, n, m, p, r, t, w) # "none"
           THEN /\ last' = Call("start_workers", c, args, "ValueError", << >>)
                /\ UNCHANGED <<jobs, queue, nextCluster, submitted>>
           ELSE /\ nextCluster <= MaxCluster
                /\ submitted + n <= MaxJobs
                /\ CASE outcome = "ok" ->
                          /\ queue' = queue \cup classads
                          /\ jobs' = [jobs EXCEPT ![c] = Record(jobs[c], classads)]
                          /\ nextCluster' = nextCluster + 1
                          /\ submitted' = submitted + n
                          /\ last' = Call("start_workers", c, args, "ok", <<submit>>)
                     [] outcome = "queue" ->
                          /\ last' = Call("start_workers", c, args, "RuntimeError", <<submit>>)
                          /\ UNCHANGED <<jobs, queue, nextCluster, submitted>>
                     [] outcome = "commit" ->
                          /\ jobs' = [jobs EXCEPT ![c] = Record(jobs[c], classads)]
                          /\ nextCluster' = nextCluster + 1
                          /\ submitted' = submitted + n
                          /\ last' = Call("start_workers", c, args, "RuntimeError", <<submit>>)
                          /\ UNCHANGED queue
    /\ UNCHANGED <<registry, life, cfg, timerOn, closeRms, exited, input, pc>>

\* ------------------------------------------------ removal ----------------
\* one schedd.act call: the request is sent; it raises when the schedd is
\* unreachable (ok = FALSE) or cannot parse the expression
Act(job_spec, ok) ==
    IF ok /\ Parses(job_spec) THEN queue' = condor_rm(queue, job_spec)
    ELSE UNCHANGED queue

ActResult(job_spec, ok) == IF ok /\ Parses(job_spec) THEN "ok" ELSE "RuntimeError"

\* a killall that also forgets the jobs it asked the schedd to remove
killall_forget(c, ok) ==
    /\ exited = "running"
    /\ life[c] \in {"open", "closed"}
    /\ Act(scheduler_constraint(c), ok)
    /\ jobs' = [jobs EXCEPT ![c] = IF ok THEN {} ELSE @]
    /\ last' = Call("killall", c, << >>, ActResult(scheduler_constraint(c), ok),
                    <<RmCall(scheduler_constraint(c))>>)
    /\ UNCHANGED <<registry, life, cfg, timerOn, nextCluster, submitted, closeRms, exited, input, pc>>

killall(c, ok) ==
    /\ exited = "running"
    /\ life[c] \in {"open", "closed"}
    /\ Act(scheduler_constraint(c), ok)
    /\ last' = Call("killall", c, << >>, ActResult(scheduler_constraint(c), ok),
                    <<RmCall(scheduler_constraint(c))>>)
    /\ UNCHANGED <<registry, life, cfg, timerOn, jobs, nextCluster, submitted, closeRms, exited, input, pc>>

\* worker_ids is a str (one job id) or a list of job ids
stop_workers(c, isStr, worker_ids, ok) ==
    /\ exited = "running"
    /\ life[c] \in {"open", "closed"}
    /\ LET ids == IF isStr THEN <<worker_ids>> ELSE worker_ids
           constraint == AndConstraint(scheduler_constraint(c), workers_constraint(ids))
       IN  IF \E i \in 1..Len(ids) : ~CanUnpack(ids[i])
           THEN /\ last' = Call("stop_workers", c, ids, "ValueError", << >>)
                /\ UNCHANGED queue
           ELSE /\ Act(constraint, ok)
                /\ last' = Call("stop_workers", c, ids, ActResult(constraint, ok),
                                <<RmCall(constraint)>>)
    /\ UNCHANGED <<registry, life, cfg, timerOn, jobs, nextCluster, submitted, closeRms, exited, input, pc>>

\* ------------------------------------------------ cleanup_jobs -----------
ActiveStatuses == {JOB_STATUS_IDLE, JOB_STATUS_RUNNING, JOB_STATUS_HELD}

\* a pass that takes every job the query returns as active
active_jobids_any(c) ==
    {JobId(ad) : ad \in Query(queue, scheduler_constraint(c))}

active_jobids(c) ==
    {JobId(ad) : ad \in {a \in Query(queue, scheduler_constraint(c)) :
                            a.JobStatus \in ActiveStatuses}}

\* a pass that takes the active jobs of the queue as the new jobs
Prune_adopt(js, active) == active

\* a pass that stops after its first deletion
Prune_one(js, active) ==
    IF \E jobid \in js : jobid \notin active
    THEN js \ {CHOOSE jobid \in js : jobid \notin active}
    ELSE js

\* for jobid in self.jobids: if jobid not in active_jobids: del self.jobs[jobid]
Prune(js, active) == {jobid \in js : jobid \in active}

QueryCall(c) == [kind |-> "query", constraint |-> scheduler_constraint(c)]

\* ok = FALSE: schedd.query raises before anything is deleted
cleanup_jobs(c, ok) ==
    /\ exited = "running"
    /\ life[c] \in {"open", "closed"}
    /\ IF ok
       THEN /\ jobs' = [jobs EXCEPT ![c] = Prune(jobs[c], active_jobids(c))]
            /\ last' = Call("cleanup_jobs", c, << >>, "ok", <<QueryCall(c)>>)
       ELSE /\ last' = Call("cleanup_jobs", c, << >>, "RuntimeError", <<QueryCall(c)>>)
            /\ UNCHANGED jobs
    /\ UNCHANGED <<registry, life, cfg, timerOn, queue, nextCluster, submitted, closeRms, exited, input, pc>>

\* a callback that is not scheduled again once cleanup_jobs has raised
PeriodicCallback_run_crash(c, ok) ==
    /\ exited = "running"
    /\ timerOn[c]
    /\ jobs' = [jobs EXCEPT ![c] = IF ok THEN Prune(jobs[c], active_jobids(c)) ELSE @]
    /\ last' = Call("cleanup_jobs", c, << >>, IF ok THEN "ok" ELSE "RuntimeError",
                    <<QueryCall(c)>>)
    /\ timerOn' = [timerOn EXCEPT ![c] = ok]
    /\ UNCHANGED <<registry, life, cfg, queue, nextCluster, submitted, closeRms, exited, input, pc>>

\* one tick of the PeriodicCallback started by __init__: tornado runs the
\* callback on the scheduler's loop, logs an exception the callback raises,
\* and schedules the next tick in either case
PeriodicCallback_run(c, ok) ==
    /\ timerOn[c]
    /\ cleanup_jobs(c, ok)

\* ------------------------------------------------ the two threads --------
\* start_workers runs in the caller's thread and cleanup_jobs in the thread
\* of the scheduler's loop, with no lock between them: each is a sequence of
\* steps, and the steps of the two interleave.

\* job.queue(txn, count=n, ad_results=classads): the ads are returned, and
\* are not in the queue until the transaction commits
start_workers_queue(c, n) ==
    /\ exited = "running"
    /\ life[c] \in {"open", "closed"}
    /\ pc.control.at = "idle"
    /\ StartError(c, n, None, None, None, None, None) = "none"
    /\ nextCluster <= MaxCluster
    /\ submitted + n <= MaxJobs
    /\ pc' = [pc EXCEPT !.control = [at |-> "queued", ctrl |-> c, recorded |-> 0,
                                     classads |-> Classads(c, nextCluster, n)]]
    /\ nextCluster' = nextCluster + 1
    /\ submitted' = submitted + n
    /\ last' = Call("job.queue", c, <<n>>, "ok",
                    <<[kind |-> "queue", count |-> n,
                       job |-> SubmitDescription(c, None, None, None, None, None)]>>)
    /\ UNCHANGED <<registry, life, cfg, timerOn, jobs, queue, closeRms, exited, input>>

\* one turn of `for ad in classads: self.jobs[...] = ad`
start_workers_record(c) ==
    /\ pc.control.at = "queued"
    /\ pc.control.ctrl = c
    /\ pc.control.recorded < Cardinality(pc.control.classads)
    /\ LET ad == CHOOSE a \in pc.control.classads : a.ProcId = pc.control.recorded
       IN  /\ jobs' = [jobs EXCEPT ![c] = Record(@, {ad})]
           /\ last' = Call("record", c, <<JobId(ad)>>, "ok", << >>)
    /\ pc' = [pc EXCEPT !.control.recorded = @ + 1]
    /\ UNCHANGED <<registry, life, cfg, timerOn, queue, nextCluster, submitted, closeRms,
                   exited, input>>

\* leaving the with block: the transaction commits and the jobs are queued
start_workers_commit(c) ==
    /\ pc.control.at = "queued"
    /\ pc.control.ctrl = c
    /\ pc.control.recorded = Cardinality(pc.control.classads)
    /\ queue' = queue \cup pc.control.classads
    /\ pc' = [pc EXCEPT !.control = [at |-> "idle"]]
    /\ last' = Call("commit", c, << >>, "ok", << >>)
    /\ UNCHANGED <<registry, life, cfg, timerOn, jobs, nextCluster, submitted, closeRms,
                   exited, input>>

\* the list comprehension over schedd.query(...)
cleanup_jobs_query(c) ==
    /\ exited = "running"
    /\ timerOn[c]
    /\ pc.loop.at = "idle"
    /\ pc' = [pc EXCEPT !.loop = [at |-> "queried", ctrl |-> c, active |-> active_jobids(c)]]
    /\ last' = Call("schedd.query", c, << >>, "ok", <<QueryCall(c)>>)
    /\ UNCHANGED <<registry, life, cfg, timerOn, jobs, queue, nextCluster, submitted,
                   closeRms, exited, input>>

\* the loop over self.jobids, against the list the query returned
cleanup_jobs_prune(c) ==
    /\ pc.loop.at = "queried"
    /\ pc.loop.ctrl = c
    /\ jobs' = [jobs EXCEPT ![c] = Prune(@, pc.loop.active)]
    /\ pc' = [pc EXCEPT !.loop = [at |-> "idle"]]
    /\ last' = Call("prune", c, << >>, "ok", << >>)
    /\ UNCHANGED <<registry, life, cfg, timerOn, queue, nextCluster, submitted, closeRms,
                   exited, input>>

\* ------------------------------------------------ close ------------------
\* self.killall(); self.local_cluster.close().  When killall raises, the
\* local cluster is left running.
CloseBody(c, ok, op) ==
    /\ Act(scheduler_constraint(c), ok)
    /\ closeRms' = [closeRms EXCEPT ![c] = @ + 1]
    /\ timerOn' = [timerOn EXCEPT ![c] = IF ok THEN FALSE ELSE @]
    /\ last' = Call(op, c, << >>, ActResult(scheduler_constraint(c), ok),
                    <<RmCall(scheduler_constraint(c))>>)
    /\ UNCHANGED <<registry, cfg, jobs, nextCluster, submitted, exited, input, pc>>

close(c, ok) ==
    /\ exited = "running"
    /\ life[c] \in {"open", "closed"}
    /\ closeRms[c] < MaxCloses
    /\ CloseBody(c, ok, "close")
    /\ life' = [life EXCEPT ![c] = IF ok THEN "closed" ELSE @]

\* leaving a `with` block
HTCondorCluster_exit(c, ok) ==
    /\ exited = "running"
    /\ life[c] \in {"open", "closed"}
    /\ closeRms[c] < MaxCloses
    /\ CloseBody(c, ok, "__exit__")
    /\ life' = [life EXCEPT ![c] = IF ok THEN "closed" ELSE @]

\* the destructor, once the object is unreachable: after close() has
\* stopped the loop that holds the callback, or after __init__ raised
HTCondorCluster_del(c, ok) ==
    /\ exited = "running"
    /\ life[c] \in {"closed", "failed"}
    /\ CloseBody(c, ok, "__del__")
    /\ life' = [life EXCEPT ![c] = "dead"]

\* ------------------------------------------------ process exit -----------
\* a pass that stops one entry short of the end of the list
global_killall_short(failAt) ==
    /\ exited = "running"
    /\ LET attempted == IF failAt = 0 THEN Len(registry) - 1 ELSE failAt
           done == IF failAt = 0 THEN Len(registry) - 1 ELSE failAt - 1
       IN  /\ queue' = {ad \in queue : \A i \in 1..done : ad.DaskSchedulerId # registry[i][1]}
           /\ last' = Call("global_killall", "-", << >>,
                           IF failAt = 0 THEN "ok" ELSE "RuntimeError",
                           [i \in 1..attempted |->
                               [kind |-> "act",
                                job_spec |-> [op |-> "tag", id |-> registry[i][1]]]])
    /\ exited' = IF failAt = 0 THEN "done" ELSE "raised"
    /\ UNCHANGED <<registry, life, cfg, timerOn, jobs, nextCluster, submitted, closeRms, input, pc>>

\* the atexit pass over _global_schedulers; failAt = 0 when every
\* condor_rm returns, else the position of the entry whose condor_rm raises
RECURSIVE RmAll(_, _, _)
RmAll(q, entries, k) ==
    IF k = 0 THEN q
    ELSE condor_rm(RmAll(q, entries, k - 1), scheduler_constraint(entries[k][1]))

global_killall(failAt) ==
    /\ exited = "running"
    /\ LET attempted == IF failAt = 0 THEN Len(registry) ELSE failAt
           done == IF failAt = 0 THEN Len(registry) ELSE failAt - 1
       IN  /\ queue' = RmAll(queue, registry, done)
           /\ last' = Call("global_killall", "-", << >>,
                           IF failAt = 0 THEN "ok" ELSE "RuntimeError",
                           [i \in 1..attempted |->
                               RmCall(scheduler_constraint(registry[i][1]))])
    /\ exited' = IF failAt = 0 THEN "done" ELSE "raised"
    /\ UNCHANGED <<registry, life, cfg, timerOn, jobs, nextCluster, submitted, closeRms, input, pc>>

\* ------------------------------------------------ specification ----------
\* job ids a caller can name: those in the queue or in any controller's jobs
KnownIds == {JobId(ad) : ad \in queue} \cup UNION {jobs[c] : c \in Controllers}

IdKey(jobid) == 10 * Literal(Split(jobid)[1]) + Literal(Split(jobid)[2])

\* the list of the ids of S, in increasing order
RECURSIVE IdList(_)
IdList(S) ==
    IF S = {} THEN << >>
    ELSE LET first == CHOOSE x \in S : \A y \in S : IdKey(x) <= IdKey(y)
         IN  <<first>> \o IdList(S \ {first})

IdLists == {IdList(S) : S \in {T \in SUBSET KnownIds : Cardinality(T) <= MaxStop}}

\* ---- Spec: the life of two controllers of one process, up to its exit ----
Construct ==
    \E c \in Controllers, interval \in {0, DefaultCleanupInterval} :
        HTCondorCluster_init(c, DefaultCfg, interval)

Start ==
    \E c \in Controllers : start_workers(c, 1, None, None, None, None, None, "ok")

Killall == \E c \in Controllers : killall(c, TRUE)

StopList == \E c \in Controllers, ids \in IdLists : stop_workers(c, FALSE, ids, TRUE)

\* a str argument: one job id, or a string that is no job id
StopStr ==
    \E c \in Controllers, id \in KnownIds \cup {<<"7">>} : stop_workers(c, TRUE, id, TRUE)

Close == \E c \in Controllers : close(c, TRUE)

Exit == \E c \in Controllers : HTCondorCluster_exit(c, TRUE)

Del == \E c \in Controllers : HTCondorCluster_del(c, TRUE)

AtExit == \E failAt \in 0..Len(registry) : global_killall(failAt)

Next ==
    \/ Construct
    \/ Start
    \/ Killall
    \/ StopList
    \/ StopStr
    \/ Close
    \/ Exit
    \/ Del
    \/ AtExit

Spec == Init /\ [][Next]_vars

\* ---- SpecFleet: one constructed controller and the schedd's queue ----
InitFleet ==
    /\ registry = <<<<"a", "schedd">>>>
    /\ life = [c \in Controllers |-> IF c = "a" THEN "open" ELSE "unborn"]
    /\ cfg = [c \in Controllers |-> DefaultCfg]
    /\ timerOn = [c \in Controllers |-> c = "a"]
    /\ jobs = [c \in Controllers |-> {}]
    /\ queue = {}
    /\ nextCluster = 1
    /\ submitted = 0
    /\ closeRms = [c \in Controllers |-> 0]
    /\ exited = "running"
    /\ last = Call("__init__", "a", <<DefaultCleanupInterval>>, "ok", << >>)
    /\ input = << >>
    /\ pc = Idle

FleetStart ==
    \E n \in -1..MaxN, outcome \in {"ok", "queue", "commit"} :
        start_workers("a", n, None, None, None, None, None, outcome)

FleetKillall == killall("a", TRUE)

\* the empty list, or one job id
FleetStop ==
    \E ids \in {<< >>} \cup {<<id>> : id \in KnownIds} : stop_workers("a", FALSE, ids, TRUE)

\* the timer ticks; the query of a tick succeeds or raises
FleetCleanup == \E ok \in BOOLEAN : PeriodicCallback_run("a", ok)

NextFleet ==
    \/ FleetStart
    \/ FleetKillall
    \/ FleetStop
    \/ FleetCleanup
    \/ ScheddStep

SpecFleet == InitFleet /\ [][NextFleet]_vars

\* ---- SpecTimer: one controller whose timer keeps ticking and whose ----
\* ---- queries keep succeeding from some point on                    ----
TimerStart == start_workers("a", 1, None, None, None, None, None, "ok")

TimerTick == \E ok \in BOOLEAN : PeriodicCallback_run("a", ok)

NextTimer ==
    \/ TimerStart
    \/ FleetKillall
    \/ TimerTick
    \/ ScheddStep

SpecTimer == InitFleet /\ [][NextTimer]_vars /\ WF_vars(PeriodicCallback_run("a", TRUE))

\* ---- SpecStart: one start_workers call over its arguments and the ----
\* ---- constructor's configuration                                   ----
NVals == -1..MaxN
MemoryVals == {None, Some(-1), Some(0), Some(20)}
ProcsVals == {None, Some(0), Some(2)}
ReservedVals == {None, Some(0), Some(30)}
ThreadsVals == {None, Some(0), Some(2)}
TimeoutVals == {None, Some(0), Some(60)}

CfgVals ==
    {[DefaultCfg EXCEPT !.memory_per_worker = m, !.reserved_memory = r] :
        m \in {Some(DefaultMemoryPerWorker), Some(30)},
        r \in {None, Some(0), Some(40)}}

InitStart ==
    /\ registry = <<<<"a", "schedd">>>>
    /\ life = [c \in Controllers |-> IF c = "a" THEN "open" ELSE "unborn"]
    /\ cfg \in {[c \in Controllers |-> IF c = "a" THEN k ELSE DefaultCfg] : k \in CfgVals}
    /\ timerOn = [c \in Controllers |-> c = "a"]
    /\ jobs = [c \in Controllers |-> {}]
    /\ queue = {}
    /\ nextCluster = 1
    /\ submitted = 0
    /\ closeRms = [c \in Controllers |-> 0]
    /\ exited = "running"
    /\ last = Call("__init__", "a", <<DefaultCleanupInterval>>, "ok", << >>)
    /\ input \in NVals \X MemoryVals \X ProcsVals \X ReservedVals \X ThreadsVals \X TimeoutVals
    /\ pc = Idle

\* the call under test
StartInput ==
    start_workers("a", input[1], input[2], input[3], input[4], input[5], input[6], "ok")

\* a call with every argument left at its default, memory_per_worker aside
StartPlain ==
    start_workers("a", 1, Some(DefaultMemoryPerWorker), None, None, None, None, "ok")

NextStart ==
    \/ StartInput
    \/ StartPlain

SpecStart == InitStart /\ [][NextStart]_vars

\* ---- SpecBudget: the budget calculator over pairs of process counts ----
ProcsRange == 1..MaxProcs

InitBudget ==
    /\ registry = << >>
    /\ life = [c \in Controllers |-> "unborn"]
    /\ cfg = [c \in Controllers |-> DefaultCfg]
    /\ timerOn = [c \in Controllers |-> FALSE]
    /\ jobs = [c \in Controllers |-> {}]
    /\ queue = {}
    /\ nextCluster = 1
    /\ submitted = 0
    /\ closeRms = [c \in Controllers |-> 0]
    /\ exited = "running"
    /\ last = Call("import", "-", << >>, "ok", << >>)
    /\ input \in ProcsRange \X ProcsRange
    /\ pc = Idle

\* reserved_memory_per_worker applied to each of the two counts
BudgetCall ==
    /\ exited = "running"
    /\ last' = Call("reserved_memory_per_worker", "-", input,
                    <<reserved_memory_per_worker(input[1]),
                      reserved_memory_per_worker(input[2])>>, << >>)
    /\ UNCHANGED <<registry, life, cfg, timerOn, jobs, queue, nextCluster, submitted,
                   closeRms, exited, input, pc>>

NextBudget == BudgetCall

SpecBudget == InitBudget /\ [][NextBudget]_vars

\* ---- SpecShared: two constructed controllers on one schedd ----
InitShared ==
    /\ registry = <<<<"a", "schedd">>, <<"b", "schedd">>>>
    /\ life = [c \in Controllers |-> "open"]
    /\ cfg = [c \in Controllers |-> DefaultCfg]
    /\ timerOn = [c \in Controllers |-> TRUE]
    /\ jobs = [c \in Controllers |-> {}]
    /\ queue = {}
    /\ nextCluster = 1
    /\ submitted = 0
    /\ closeRms = [c \in Controllers |-> 0]
    /\ exited = "running"
    /\ last = Call("__init__", "b", <<DefaultCleanupInterval>>, "ok", << >>)
    /\ input = << >>
    /\ pc = Idle

SharedStart ==
    \E c \in Controllers, outcome \in {"ok", "commit"} :
        start_workers(c, 1, None, None, None, None, None, outcome)

\* one job id, of either controller
SharedStop ==
    \E c \in Controllers, id \in KnownIds : stop_workers(c, FALSE, <<id>>, TRUE)

SharedKillall == \E c \in Controllers : killall(c, TRUE)

SharedCleanup == \E c \in Controllers : PeriodicCallback_run(c, TRUE)

SharedClose == \E c \in Controllers : close(c, TRUE)

NextShared ==
    \/ SharedStart
    \/ SharedStop
    \/ SharedKillall
    \/ SharedCleanup
    \/ SharedClose
    \/ ScheddStep

SpecShared == InitShared /\ [][NextShared]_vars

\* ---- SpecRace: one controller, the caller's thread and the loop's thread ----
RaceQueue == \E n \in 1..MaxN : start_workers_queue("a", n)

RaceRecord == start_workers_record("a")

RaceCommit == start_workers_commit("a")

\* killall from the caller's thread, between two start_workers calls
RaceKillall == pc.control.at = "idle" /\ killall("a", TRUE)

RaceQuery == cleanup_jobs_query("a")

RacePrune == cleanup_jobs_prune("a")

NextRace ==
    \/ RaceQueue
    \/ RaceRecord
    \/ RaceCommit
    \/ RaceKillall
    \/ RaceQuery
    \/ RacePrune

SpecRace == InitFleet /\ [][NextRace]_vars

\* ======================================================== properties ======
Closed(c) == life[c] \in {"closed", "dead"}

InRegistry(c) == \E i \in 1..Len(registry) : registry[i][1] = c

\* the removal requests of the last operation that are scoped to controller c alone
RequestsFor(c) ==
    {k \in 1..Len(last.calls) :
        /\ last.calls[k].kind = "act"
        /\ last.calls[k].job_spec = [op |-> "tag", id |-> c]}

\* C1: however often close() runs for a controller (explicitly, from
\* __exit__ or from __del__), it issues one removal request in total.
CloseIssuesOneRemoval == \A c \in Controllers : closeRms[c] <= 1

\* C2: once close() has returned, the controller has no entry in the exit
\* registry, and the exit pass issues no removal request for it.
ClosedLeavesRegistry ==
    \A c \in Controllers :
        Closed(c) => /\ ~InRegistry(c)
                     /\ (exited # "running" => RequestsFor(c) = {})

\* C3: when the exit pass has run to completion, every controller with an
\* entry in the registry, so every one constructed and not closed, has got
\* exactly one removal request, scoped to its scheduler id, and none of
\* its jobs is left in the queue.
ExitPassRemovesEveryOpenController ==
    exited = "done" =>
        \A c \in Controllers :
            (InRegistry(c) \/ life[c] = "open") =>
                /\ Cardinality(RequestsFor(c)) = 1
                /\ \A ad \in queue : ad.DaskSchedulerId # c

\* C3 witness: the pass completed with two open controllers that had jobs
ExitPassTwoOpen ==
    /\ exited = "done"
    /\ \A c \in Controllers : life[c] = "open" /\ jobs[c] # {}

\* C4: a step of one controller's operation takes no job tagged with another
\* controller's id out of the queue, and at exit each entry's request
\* matches only jobs tagged with that entry's id.
ScopeIsolation ==
    [][/\ last'.op \in {"stop_workers", "killall", "close", "__exit__", "__del__"} =>
            \A ad \in queue \ queue' : ad.DaskSchedulerId = last'.ctrl
       /\ last'.op = "global_killall" =>
            /\ \A k \in 1..Len(last'.calls), ad \in queue :
                   Matches(last'.calls[k].job_spec, ad) => ad.DaskSchedulerId = registry[k][1]
            /\ \A ad \in queue \ queue' : InRegistry(ad.DaskSchedulerId)]_vars

\* C4 witness: stop_workers of one controller named a job of the other,
\* and that job is still in the queue
StopNamedForeignJob ==
    /\ last.op = "stop_workers"
    /\ last.result = "ok"
    /\ \E ad \in queue :
          /\ ad.DaskSchedulerId # last.ctrl
          /\ \E i \in 1..Len(last.args) : last.args[i] = JobId(ad)

\* C5: a start_workers call with n < 1 raises ValueError, calls the schedd
\* not at all, and leaves jobs and the queue as they were.
StartRejectsCountBelowOne ==
    [][(last'.op = "start_workers" /\ last'.args[1] < 1) =>
          /\ last'.result = "ValueError"
          /\ last'.calls = << >>
          /\ UNCHANGED <<jobs, queue, nextCluster>>]_vars

\* C5 witness: a call with n < 1 was rejected while jobs were being tracked
RejectedCountWithJobs ==
    /\ last.op = "start_workers"
    /\ last.args[1] < 1
    /\ last.result = "ValueError"
    /\ jobs["a"] # {}

\* the reserved memory of a call read as: the call's override when one is
\* given, else the constructor's when one is given, else the calculator's
GivenReserved(c, r, p) ==
    IF r # None THEN r[1]
    ELSE IF cfg[c].reserved_memory # None THEN cfg[c].reserved_memory[1]
    ELSE reserved_memory_per_worker(EffProcs(c, p))

\* C6: a start_workers call whose reserved memory (override, else
\* constructor value, else calculator value) is >= memory_per_worker raises
\* ValueError before any schedd call, and every submitted description has
\* a memory limit > 0 equal to memory_per_worker minus that reserved memory.
ReservedBelowMemory ==
    last.op = "start_workers" =>
        LET c == last.ctrl
            reserved == GivenReserved(c, last.args[4], last.args[3])
        IN  /\ reserved >= EffMemory(c, last.args[2]) =>
                  last.result = "ValueError" /\ last.calls = << >>
            /\ \A k \in 1..Len(last.calls) :
                  last.calls[k].kind = "queue" =>
                      /\ last.calls[k].job.memory_limit > 0
                      /\ last.calls[k].job.memory_limit =
                             last.calls[k].job.RequestMemory - reserved

\* C7: a start_workers(n) call that returns adds exactly n keys to jobs,
\* the keys of the n ads the schedd queued, and removes none.
StartAddsExactlyN ==
    [][(last'.op = "start_workers" /\ last'.result = "ok") =>
          LET c == last'.ctrl
              n == last'.args[1]
          IN  /\ n >= 1
              /\ jobs[c] \subseteq jobs'[c]
              /\ Cardinality(jobs'[c] \ jobs[c]) = n
              /\ Cardinality(queue' \ queue) = n]_vars

\* C7 witness: a call with n = 2 returned and jobs holds an earlier entry too
StartedTwoAfterOne ==
    /\ last.op = "start_workers"
    /\ last.result = "ok"
    /\ last.args[1] = 2
    /\ Cardinality(jobs[last.ctrl]) = 3

\* the job id names the ad
Names(jobid, ad) ==
    /\ CanUnpack(jobid)
    /\ Literal(Split(jobid)[1]) = ad.ClusterId
    /\ Literal(Split(jobid)[2]) = ad.ProcId

\* the ad is in the queue under controller c's id with status Idle, Running or Held
ActiveFor(c, ad) ==
    /\ ad \in queue
    /\ ad.DaskSchedulerId = c
    /\ ad.JobStatus \in {JOB_STATUS_IDLE, JOB_STATUS_RUNNING, JOB_STATUS_HELD}

\* C8: after a cleanup_jobs pass, jobs is exactly the set of the keys it
\* held before that name a job the queue lists for this controller as
\* Idle, Running or Held; nothing is added.
CleanupPrunesOnly ==
    [][(last'.op = "cleanup_jobs" /\ last'.result = "ok") =>
          LET c == last'.ctrl
          IN  jobs'[c] = {jobid \in jobs[c] :
                             \E ad \in queue : ActiveFor(c, ad) /\ Names(jobid, ad)}]_vars

\* C8 witness: after a pass, the queue holds a running job of this controller
\* that jobs does not list, and jobs still lists a held one
CleanupLeftUntrackedAndHeld ==
    /\ last.op = "cleanup_jobs"
    /\ last.result = "ok"
    /\ \E ad \in queue :
          /\ ActiveFor(last.ctrl, ad)
          /\ \A jobid \in jobs[last.ctrl] : ~Names(jobid, ad)
    /\ \E ad \in queue :
          /\ ad.JobStatus = JOB_STATUS_HELD
          /\ \E jobid \in jobs[last.ctrl] : Names(jobid, ad)

\* C9: a cleanup_jobs pass that directly follows a cleanup_jobs pass
\* leaves jobs as the first pass left it.
CleanupIdempotent ==
    [][(/\ last.op = "cleanup_jobs" /\ last.result = "ok"
        /\ last'.op = "cleanup_jobs" /\ last'.result = "ok"
        /\ last'.ctrl = last.ctrl) => jobs' = jobs]_vars

\* C9 witness: a pass has run that had pruned entries and kept entries,
\* and one more inactive job sits in the queue
CleanupRanWithWork ==
    /\ last.op = "cleanup_jobs"
    /\ last.result = "ok"
    /\ jobs[last.ctrl] # {}
    /\ Cardinality(jobs[last.ctrl]) < submitted
    /\ \E ad \in queue : ad.DaskSchedulerId = last.ctrl /\ ~ActiveFor(last.ctrl, ad)

\* C10: stop_workers with an empty list of job ids raises ValueError and
\* issues no removal request.
StopRejectsEmptyList ==
    (last.op = "stop_workers" /\ last.args = << >>) =>
        last.result = "ValueError" /\ last.calls = << >>

\* C11: a start_workers call that fails, a failure of the transaction's
\* commit at the end of the batch included, leaves jobs as it was before
\* the call.
FailedStartLeavesJobs ==
    [][(last'.op = "start_workers" /\ last'.result # "ok") => jobs' = jobs]_vars

\* C12: the exit pass never raises, and when the removal request of one
\* registry entry fails, every other entry still gets its request.
ExitPassBestEffort ==
    exited # "running" =>
        /\ exited = "done"
        /\ \A i \in 1..Len(registry) : RequestsFor(registry[i][1]) # {}

\* C13: a cleanup_jobs pass whose query raises leaves jobs as it was and
\* leaves the periodic callback running, so that a later tick runs
\* cleanup_jobs again.
FailedPollSurvivable ==
    [][(last'.op = "cleanup_jobs" /\ last'.result = "RuntimeError") =>
          /\ jobs' = jobs
          /\ timerOn'[last'.ctrl]
          /\ exited' = "running"]_vars

\* C13 witness: the query of a pass raised while jobs listed a job that
\* is not in the queue, and jobs still lists it
FailedPollKeptStaleJob ==
    /\ last.op = "cleanup_jobs"
    /\ last.result = "RuntimeError"
    /\ \E jobid \in jobs[last.ctrl] : \A ad \in queue : ~Names(jobid, ad)

\* C14: for process counts p1, p2 >= 1, reserved_memory_per_worker returns
\* a non-negative integer for each, and p1 <= p2 implies that the value
\* for p1 is at most the value for p2, the step from 1 to 2 included.
BudgetMonotone ==
    last.op = "reserved_memory_per_worker" =>
        /\ last.result[1] \in Nat
        /\ last.result[2] \in Nat
        /\ (last.args[1] <= last.args[2] => last.result[1] <= last.result[2])

\* C14 witness: the calculator was applied to 1 and to 2, and the two
\* branches gave different values
BudgetAcrossBranches ==
    /\ last.op = "reserved_memory_per_worker"
    /\ last.args = <<1, 2>>
    /\ last.result[1] < last.result[2]

\* C16: a start_workers call with an override of memory_per_worker,
\* procs_per_worker, threads_per_worker or worker_timeout below 1, the
\* value 0 included, raises ValueError before any schedd call and leaves
\* jobs and the queue as they were.
OverrideBelowMinimumRejected ==
    [][(/\ last'.op = "start_workers"
        /\ \E i \in {2, 3, 5, 6} : last'.args[i] # None /\ last'.args[i][1] < 1) =>
          /\ last'.result = "ValueError"
          /\ last'.calls = << >>
          /\ UNCHANGED <<jobs, queue>>]_vars

\* C17: a construction with cleanup_interval < 1 raises ValueError, leaves
\* the exit registry as it was, and starts no periodic callback.
FailedConstructionNoEffect ==
    [][(last'.op = "__init__" /\ last'.args[1] < 1) =>
          /\ last'.result = "ValueError"
          /\ registry' = registry
          /\ timerOn' = timerOn]_vars

\* C19: stop_workers and killall leave jobs as it was; a key leaves jobs
\* only in a cleanup_jobs pass of its controller, and only when the queue
\* does not list its job as Idle, Running or Held.
RemovalLeavesJobs ==
    [][/\ last'.op \in {"stop_workers", "killall"} => jobs' = jobs
       /\ \A c \in Controllers : \A jobid \in jobs[c] \ jobs'[c] :
              /\ last'.op = "cleanup_jobs"
              /\ last'.ctrl = c
              /\ ~\E ad \in queue : ActiveFor(c, ad) /\ Names(jobid, ad)]_vars

\* C19 witness: stop_workers named a tracked job and returned, the job is
\* gone from the queue, and jobs still lists it next to another job that
\* is still queued
StoppedJobStillListed ==
    /\ last.op = "stop_workers"
    /\ last.result = "ok"
    /\ \E i \in 1..Len(last.args) :
          /\ last.args[i] \in jobs[last.ctrl]
          /\ \A ad \in queue : ~Names(last.args[i], ad)
    /\ \E ad \in queue : \E jobid \in jobs[last.ctrl] : Names(jobid, ad)

\* C18: a key enters a controller's jobs only in a start_workers call of
\* that controller that succeeds, as the id of a job that call put in the
\* queue under the controller's scheduler id.
JobsComeFromOwnSubmission ==
    [][\A c \in Controllers : \A jobid \in jobs'[c] \ jobs[c] :
          /\ last'.op = "start_workers"
          /\ last'.ctrl = c
          /\ last'.result = "ok"
          /\ \E ad \in queue' \ queue : ad.DaskSchedulerId = c /\ Names(jobid, ad)]_vars

\* C15: under every interleaving of the steps of start_workers (queue,
\* record, commit) with the steps of cleanup_jobs (query, prune), no step
\* takes out of jobs a job that the queue lists as Idle, Running or Held.
ReconcileKeepsActiveJobs ==
    [][\A c \in Controllers : \A jobid \in jobs[c] \ jobs'[c] :
          ~\E ad \in queue' : ad.DaskSchedulerId = c
                               /\ ad.JobStatus \in ActiveStatuses
                               /\ Names(jobid, ad)]_vars

\* every job id the schedd can hand out for batches of one job
AllJobIds == {JobId([ClusterId |-> k, ProcId |-> 0]) : k \in 1..MaxCluster}

\* the queue lists the job as Idle, Running or Held
ActiveId(jobid) == \E ad \in queue : ActiveFor(ad.DaskSchedulerId, ad) /\ Names(jobid, ad)

\* C20: with the timer ticking and its queries succeeding, a job that
\* from some point on is never Idle, Running or Held in the queue is from
\* some point on never in jobs.
StaleJobEventuallyPruned ==
    \A jobid \in AllJobIds :
        <>[](~ActiveId(jobid)) => <>[](jobid \notin jobs["a"])

\* C20 witness: after a pass, the queue holds a suspended job that was
\* submitted by this controller and that jobs no longer lists
SuspendedJobPruned ==
    /\ last.op = "cleanup_jobs"
    /\ last.result = "ok"
    /\ \E ad \in queue :
          /\ ad.DaskSchedulerId = last.ctrl
          /\ ad.JobStatus \notin ActiveStatuses
          /\ \A jobid \in jobs[last.ctrl] : ~Names(jobid, ad)

====
